---- MODULE Spec2Model ----
(***************************************************************************)
(* Model of python_beamscanner/nearfield.py: the ScanData object, its      *)
(* static smoothing filter kaiser_smooth and its loader load_csv_data.     *)
(*                                                                         *)
(* Numbers.  Coordinates and samples are integers; every quotient the code *)
(* forms (ptp/(points-1), w/w.sum(), the linspace step) is kept as an      *)
(* exact reduced fraction <<num, den>>, and 0/0 is the value NaN, as numpy *)
(* gives for a float64 divided by the integer 0.  Floating point rounding  *)
(* is not modelled.  The integer attributes x_points and y_points are held *)
(* boxed (<<n>>), so that None (<<>>) is a value of the same kind.         *)
(*                                                                         *)
(* The module is taken as imported: the return annotations "-> ndarray" of *)
(* lines 225, 237 and 249 name an undefined global and are evaluated only  *)
(* by interpreters that evaluate annotations eagerly.                      *)
(***************************************************************************)
EXTENDS Integers, Sequences, FiniteSets, TLC

VARIABLES
    x_limits,    \* self.__x_limits
    y_limits,    \* self.__y_limits
    x_points,    \* self.__x_points
    y_points,    \* self.__y_points
    x_step,      \* self.__x_step
    y_step,      \* self.__y_step
    s21,         \* self.s21
    cal_table,   \* self.cal_table
    outcome,     \* the exception that ended the latest load_csv_data call
    last,        \* history: the arguments of the latest load_csv_data call
    fresh,       \* history: the attributes the same call leaves on a new ScanData
    sm_pc,       \* position of the kaiser_smooth caller
    sm_in,       \* arguments of the kaiser_smooth call
    sm_out       \* the sequence kaiser_smooth returned

attrs == <<x_limits, y_limits, x_points, y_points, x_step, y_step, s21, cal_table>>
hist == <<outcome, last, fresh>>
smooth == <<sm_pc, sm_in, sm_out>>
vars == <<attrs, hist, smooth>>

\* Python's None: an attribute is None or a boxed value, so that the two can
\* be told apart whatever the value is
None == <<>>
Box(v) == <<v>>
Unbox(b) == b[1]

\* float nan, written as the quotient 0/0 that produces it
NaN == <<0, 0>>

----------------------------------------------------------------------------
(* Bounds of the model *)

MaxLen == 4      \* longest signal handed to kaiser_smooth
MaxWin == 4      \* largest window_len handed to kaiser_smooth
MaxRows == 3     \* most rows of an enumerated table

SigVals == {0, 1, 3}
Betas == {0, 1}

----------------------------------------------------------------------------
(* Arithmetic helpers *)

Abs(n) == IF n < 0 THEN -n ELSE n

RECURSIVE Gcd(_, _)
Gcd(a, b) == IF b = 0 THEN a ELSE Gcd(b, a % b)

\* a / b for integers a, b >= 0 as numpy computes float64 / int: 0/0 is nan
Frac(a, b) ==
    IF b = 0 THEN NaN
    ELSE LET g == Gcd(Abs(a), b) IN <<a \div g, b \div g>>

RECURSIVE SumSeq(_)
SumSeq(s) == IF s = <<>> THEN 0 ELSE Head(s) + SumSeq(Tail(s))

Min2(a, b) == IF a < b THEN a ELSE b
Max2(a, b) == IF a > b THEN a ELSE b


----------------------------------------------------------------------------
(* numpy pieces used by kaiser_smooth *)

\* x[start:stop:-1] of a Python sequence (0-based bounds, negative bounds
\* count from the end, out-of-range bounds are clamped)
RevSlice(x, start, stop) ==
    LET n == Len(x)
        s0 == IF start < 0 THEN start + n ELSE start
        s1 == IF s0 < 0 THEN -1 ELSE IF s0 >= n THEN n - 1 ELSE s0
        e0 == IF stop < 0 THEN stop + n ELSE stop
        e1 == IF e0 < 0 THEN -1 ELSE IF e0 >= n THEN n - 1 ELSE e0
        cnt == IF s1 > e1 THEN s1 - e1 ELSE 0
    IN [k \in 1..cnt |-> x[(s1 - (k - 1)) + 1]]

\* y[a:b] with 0 <= a and b possibly below a
Slice(y, a, b) ==
    LET hi == Min2(Max2(b, 0), Len(y))
        lo == Min2(a, Len(y))
        cnt == IF hi > lo THEN hi - lo ELSE 0
    IN [k \in 1..cnt |-> y[lo + k]]

\* np.kaiser(M, beta) up to the common factor 1/I0(beta), which w/w.sum()
\* cancels: tap n is I0(beta*sqrt(1 - (2n/(M-1) - 1)^2)), with I0 cut after
\* the quadratic term of its series in z^2/4 = beta^2 n(M-1-n)/(M-1)^2, in
\* units of 1/(4 (M-1)^4).  np.kaiser(1, beta) is ones(1).
Kaiser(M, beta) ==
    IF M = 1 THEN <<1>>
    ELSE LET D == (M - 1) * (M - 1)
             q(n) == beta * beta * n * (M - 1 - n)
         IN [k \in 1..M |-> 4 * D * D + 4 * q(k - 1) * D + q(k - 1) * q(k - 1)]

\* np.convolve(w / total, s, mode='valid'): the shorter operand slides over
\* the longer one; each output is sum(w[j] * s[..]) / total
ConvolveValid(w, total, s) ==
    LET a == IF Len(s) >= Len(w) THEN s ELSE w
        v == IF Len(s) >= Len(w) THEN w ELSE s
        cnt == Len(a) - Len(v) + 1
        term(k, j) == v[j] * a[k + Len(v) - j]
    IN IF Len(v) = 0 THEN <<>>
       ELSE [k \in 1..cnt |->
                Frac(SumSeq([j \in 1..Len(v) |-> term(k, j)]), total)]

\* kaiser_smooth with the leading reflection taken from x[window_len:0:-1]
kaiser_smooth_long_reflection(x, beta, window_len) ==
    LET s == RevSlice(x, window_len, 0) \o x \o RevSlice(x, -1, -window_len)
        w == Kaiser(window_len, beta)
        y == ConvolveValid(w, SumSeq(w), s)
        h == window_len \div 2
    IN Slice(y, h, Len(y) - h)

\* ScanData.kaiser_smooth(x, beta, window_len)
kaiser_smooth(x, beta, window_len) ==
    LET s == RevSlice(x, window_len - 1, 0) \o x \o RevSlice(x, -1, -window_len)
        w == Kaiser(window_len, beta)
        y == ConvolveValid(w, SumSeq(w), s)
        h == window_len \div 2
    IN Slice(y, h, Len(y) - h)

----------------------------------------------------------------------------
(* numpy pieces used by load_csv_data and by the accessors *)

RECURSIVE Insert(_, _)
Insert(v, s) ==
    IF s = <<>> THEN <<v>>
    ELSE IF v <= Head(s) THEN <<v>> \o s
    ELSE <<Head(s)>> \o Insert(v, Tail(s))

RECURSIVE Sort(_)
Sort(s) == IF s = <<>> THEN <<>> ELSE Insert(Head(s), Sort(Tail(s)))

RECURSIVE DropRepeats(_)
DropRepeats(s) ==
    IF Len(s) <= 1 THEN s
    ELSE IF s[1] = s[2] THEN DropRepeats(Tail(s))
    ELSE <<s[1]>> \o DropRepeats(Tail(s))

\* np.unique(a): the sorted array with repeated values dropped
Unique(a) == DropRepeats(Sort(a))

RECURSIVE AMin(_)
AMin(a) == IF Len(a) = 1 THEN a[1] ELSE Min2(a[1], AMin(Tail(a)))

RECURSIVE AMax(_)
AMax(a) == IF Len(a) = 1 THEN a[1] ELSE Max2(a[1], AMax(Tail(a)))

\* np.ptp(a)
Ptp(a) == AMax(a) - AMin(a)

\* np.linspace(start, stop, num): arange(num) * ((stop-start)/(num-1)) + start
\* and, for num > 1, the last element overwritten by stop
Linspace(start, stop, num) ==
    LET div == num - 1
    IN [k \in 1..num |->
          IF num > 1 /\ k = num THEN Frac(stop, 1)
          ELSE IF div = 0 THEN Frac(start, 1)
          ELSE Frac(start * div + (k - 1) * (stop - start), div)]

\* a - b on fractions
FracSub(a, b) == Frac(a[1] * b[2] - b[1] * a[2], a[2] * b[2])

----------------------------------------------------------------------------
(* The files handed to load_csv_data *)

\* a file is its text turned into rows of numbers, or text np.loadtxt cannot
\* turn into numbers
File(rows) == [numeric |-> TRUE, rows |-> rows]
Malformed == [numeric |-> FALSE, rows |-> <<>>]

\* stage positions (x, y) of the rows of the enumerated tables
Positions == {<<0, 0>>, <<1, 0>>, <<1, 2>>, <<3, 2>>}

\* x, y, re(transmission), im(transmission), re(reference), im(reference)
Row(x, y) == <<x, y, x, y, 1, 0>>

Rows == {Row(p[1], p[2]) : p \in Positions}

Tables == UNION {[1..n -> Rows] : n \in 0..MaxRows}

\* 20 rows, x in {0,1,2,3} swept for each y in {0,10,20,30,40}
Raster4x5 == [k \in 1..20 |-> Row((k - 1) % 4, 10 * ((k - 1) \div 4))]

\* the same scan with its last row missing
Raster19 == SubSeq(Raster4x5, 1, 19)

\* a complete 2 x 2 raster
Raster2x2 == <<Row(0, 0), Row(1, 0), Row(0, 2), Row(1, 2)>>

\* the same raster written without the two reference columns
NoRefCols == [k \in 1..4 |-> SubSeq(Raster2x2[k], 1, 4)]

Files ==
    {File(t) : t \in Tables \cup {Raster4x5, Raster19, Raster2x2, NoRefCols}}
        \cup {Malformed}

\* cal_smooth: 0 stands for the default None (both are false at line 137)
CalSmooths == {0, 3}

\* the array np.loadtxt returns is two-dimensional only with at least two
\* rows and two columns; otherwise it is squeezed
NDim(data) ==
    IF Len(data) >= 2 /\ Len(data[1]) >= 2 THEN 2
    ELSE 1

NCols(data) == IF data = <<>> THEN 0 ELSE Len(data[1])

\* data[:, c] (c counted from 0)
Column(data, c) == [k \in 1..Len(data) |-> data[k][c + 1]]

----------------------------------------------------------------------------
(* ScanData *)

\* ScanData.__init__
EmptyScan ==
    [x_limits |-> None, y_limits |-> None, x_points |-> None, y_points |-> None,
     x_step |-> None, y_step |-> None, s21 |-> None, cal_table |-> None]

Self ==
    [x_limits |-> x_limits, y_limits |-> y_limits, x_points |-> x_points,
     y_points |-> y_points, x_step |-> x_step, y_step |-> y_step,
     s21 |-> s21, cal_table |-> cal_table]

\* the geometry with the steps taken as ptp / points
SetGeometry_step_over_points(self, x_in_vals, y_in_vals) ==
    [self EXCEPT
        !.x_points = Box(Len(x_in_vals)),
        !.y_points = Box(Len(y_in_vals)),
        !.x_step = Frac(Ptp(x_in_vals), Len(x_in_vals)),
        !.y_step = Frac(Ptp(y_in_vals), Len(y_in_vals)),
        !.x_limits = <<AMin(x_in_vals), AMax(x_in_vals)>>,
        !.y_limits = <<AMin(y_in_vals), AMax(y_in_vals)>>]

\* lines 126-131: the geometry attributes from the unique coordinates
SetGeometry(self, x_in_vals, y_in_vals) ==
    [self EXCEPT
        !.x_points = Box(Len(x_in_vals)),
        !.y_points = Box(Len(y_in_vals)),
        !.x_step = Frac(Ptp(x_in_vals), Len(x_in_vals) - 1),
        !.y_step = Frac(Ptp(y_in_vals), Len(y_in_vals) - 1),
        !.x_limits = <<AMin(x_in_vals), AMax(x_in_vals)>>,
        !.y_limits = <<AMin(y_in_vals), AMax(y_in_vals)>>]

\* lines 133-147: np has no attribute griddata and the module has no global
\* kaiser_smooth, so every path through the rest of the body ends in an
\* exception before self.cal_table or self.s21 is assigned
LoadFields(self, data, cal, cal_smooth) ==
    IF NCols(data) < 4 THEN [self |-> self, outcome |-> "IndexError"]
    ELSE IF cal THEN
        IF cal_smooth # 0 THEN [self |-> self, outcome |-> "NameError"]
        ELSE IF NCols(data) < 6 THEN [self |-> self, outcome |-> "IndexError"]
        ELSE [self |-> self, outcome |-> "AttributeError"]
    ELSE [self |-> self, outcome |-> "AttributeError"]

\* ScanData.load_csv_data(file_like, cal_table, cal_smooth): the attributes
\* after the call and the way the call ended
load_csv_data(self, file_like, cal, cal_smooth) ==
    IF ~file_like.numeric THEN [self |-> self, outcome |-> "ValueError"]
    ELSE IF NDim(file_like.rows) < 2 THEN [self |-> self, outcome |-> "IndexError"]
    ELSE LET data == file_like.rows
             x_in_vals == Unique(Column(data, 0))
             y_in_vals == Unique(Column(data, 1))
         IN LoadFields(SetGeometry(self, x_in_vals, y_in_vals), data, cal, cal_smooth)

\* ScanData.x_values / ScanData.y_values of an instance whose geometry is set
x_values == Linspace(x_limits[1], x_limits[2], Unbox(x_points))
y_values == Linspace(y_limits[1], y_limits[2], Unbox(y_points))

\* the shape of an array attribute
Shape(a) == IF a = None THEN None ELSE <<Len(a), Len(a[1])>>

----------------------------------------------------------------------------
(* History: what the latest call was given *)

Summary(file_like, cal, cal_smooth) ==
    IF ~file_like.numeric
    THEN [parsed |-> FALSE, rows |-> 0, cols |-> 0, xs |-> {}, ys |-> {},
          positions |-> 0, cal |-> cal, cal_smooth |-> cal_smooth]
    ELSE LET t == file_like.rows
         IN [parsed |-> TRUE, rows |-> Len(t), cols |-> NCols(t),
             xs |-> {t[k][1] : k \in 1..Len(t)},
             ys |-> {t[k][2] : k \in 1..Len(t)},
             positions |-> Cardinality({<<t[k][1], t[k][2]>> : k \in 1..Len(t)}),
             cal |-> cal, cal_smooth |-> cal_smooth]

NoCall == [parsed |-> FALSE, rows |-> -1, cols |-> 0, xs |-> {}, ys |-> {},
           positions |-> 0, cal |-> FALSE, cal_smooth |-> 0]

----------------------------------------------------------------------------
(* Specification of the ScanData object under load_csv_data calls *)

NoArgs == [x |-> <<>>, beta |-> 0, window_len |-> 0]

SmoothIdle == sm_pc = "idle" /\ sm_in = NoArgs /\ sm_out = None

Init ==
    /\ x_limits = None /\ y_limits = None
    /\ x_points = None /\ y_points = None
    /\ x_step = None /\ y_step = None
    /\ s21 = None /\ cal_table = None
    /\ outcome = "None"
    /\ last = NoCall
    /\ fresh = EmptyScan
    /\ SmoothIdle

Load(file_like, cal, cal_smooth) ==
    \E r \in {load_csv_data(Self, file_like, cal, cal_smooth)},
       f \in {load_csv_data(EmptyScan, file_like, cal, cal_smooth)} :
       /\ x_limits' = r.self.x_limits
       /\ y_limits' = r.self.y_limits
       /\ x_points' = r.self.x_points
       /\ y_points' = r.self.y_points
       /\ x_step' = r.self.x_step
       /\ y_step' = r.self.y_step
       /\ s21' = r.self.s21
       /\ cal_table' = r.self.cal_table
       /\ outcome' = r.outcome
       /\ last' = Summary(file_like, cal, cal_smooth)
       /\ fresh' = f.self
       /\ UNCHANGED smooth

Next == \E file_like \in Files, cal \in BOOLEAN, cal_smooth \in CalSmooths :
            Load(file_like, cal, cal_smooth)

Spec == Init /\ [][Next]_vars

----------------------------------------------------------------------------
(* Specification of kaiser_smooth applied to one input *)

Signals == UNION {[1..n -> SigVals] : n \in 1..MaxLen}

InitSmooth ==
    /\ x_limits = None /\ y_limits = None
    /\ x_points = None /\ y_points = None
    /\ x_step = None /\ y_step = None
    /\ s21 = None /\ cal_table = None
    /\ outcome = "None"
    /\ last = NoCall
    /\ fresh = EmptyScan
    /\ sm_pc = "call"
    /\ sm_in \in [x : Signals, beta : Betas, window_len : 1..MaxWin]
    /\ sm_out = None

Smooth ==
    /\ sm_pc = "call"
    /\ sm_out' = kaiser_smooth(sm_in.x, sm_in.beta, sm_in.window_len)
    /\ sm_pc' = "done"
    /\ UNCHANGED <<sm_in, attrs, hist>>

NextSmooth == Smooth

SpecSmooth == InitSmooth /\ [][NextSmooth]_vars

----------------------------------------------------------------------------
(* Vocabulary of the properties *)

SetMin(S) == CHOOSE m \in S : \A v \in S : m <= v
SetMax(S) == CHOOSE m \in S : \A v \in S : v <= m

\* the latest call returned normally
Returned == outcome = "returned"

\* the latest call was given a table that np.loadtxt reads
Called == last.rows >= 0 /\ last.parsed

\* the latest call was given a complete rectangular raster with six columns:
\* at least two grid lines on each axis and every grid node sampled once
CompleteRaster(l) ==
    /\ l.parsed
    /\ l.cols = 6
    /\ Cardinality(l.xs) >= 2
    /\ Cardinality(l.ys) >= 2
    /\ l.rows = Cardinality(l.xs) * Cardinality(l.ys)
    /\ l.positions = l.rows

GeometryUnset ==
    /\ x_limits = None /\ y_limits = None
    /\ x_points = None /\ y_points = None
    /\ x_step = None /\ y_step = None

GeometrySet ==
    /\ x_limits # None /\ y_limits # None
    /\ x_points # None /\ y_points # None
    /\ x_step # None /\ y_step # None

\* the four equalities between an axis accessor and the stored geometry
AxisAgrees(values, points, limits, step) ==
    /\ Len(values) = Unbox(points)
    /\ values[1] = Frac(limits[1], 1)
    /\ values[Len(values)] = Frac(limits[2], 1)
    /\ Len(values) >= 2
    /\ FracSub(values[2], values[1]) = step

----------------------------------------------------------------------------
(* Properties of kaiser_smooth, checked under SpecSmooth *)

\* C1: for every signal of length N >= 1 and every window_len in 1..N, odd
\* or even, kaiser_smooth returns exactly N elements.
C1_LengthPreserved ==
    (sm_pc = "done" /\ sm_in.window_len <= Len(sm_in.x))
        => Len(sm_out) = Len(sm_in.x)

\* C10: for every signal x of length N >= 1 and every beta >= 0,
\* kaiser_smooth(x, beta, 1) returns x: the same length and the same value at
\* every index.
C10_SingleTapIdentity ==
    (sm_pc = "done" /\ sm_in.window_len = 1)
        => /\ Len(sm_out) = Len(sm_in.x)
           /\ \A i \in 1..Len(sm_in.x) : sm_out[i] = <<sm_in.x[i], 1>>

\* a call with window_len = 1 on a signal of several different samples and a
\* tapering window has returned
C10_Witness ==
    /\ sm_pc = "done"
    /\ sm_in.window_len = 1
    /\ sm_in.beta = 1
    /\ Len(sm_in.x) >= 3
    /\ sm_in.x[1] # sm_in.x[2]
    /\ sm_out = [i \in 1..Len(sm_in.x) |-> <<sm_in.x[i], 1>>]

----------------------------------------------------------------------------
(* Properties of ScanData under load_csv_data calls, checked under Spec *)

\* C2: in every state a caller can observe, x_limits, y_limits, x_points,
\* y_points, x_step, y_step and s21 are all None or all set.
C2_AllOrNothing ==
    \/ GeometryUnset /\ s21 = None
    \/ GeometrySet /\ s21 # None

\* C3: a load_csv_data call that ends in an error leaves every attribute of
\* the instance as it was when the call was made.
C3_ErrorLeavesUnchanged ==
    [][outcome' # "returned" => attrs' = attrs]_vars

\* C4: a load made on an instance that an earlier load has populated
\* completes and leaves exactly what the same load leaves on a new instance:
\* geometry, s21 and the calibration field depend on the latest arguments only.
C4_ReloadOverwrites ==
    [][(CompleteRaster(last) /\ GeometrySet /\ CompleteRaster(last'))
          => (Returned' /\ s21' # None /\ Self' = fresh')]_vars

\* C5: a table with fewer than 2 distinct x values or fewer than 2 distinct y
\* values is refused with InsufficientGridError, and no step is computed by
\* dividing by points - 1 = 0.
C5_InsufficientGridRefused ==
    (Called /\ (Cardinality(last.xs) < 2 \/ Cardinality(last.ys) < 2))
        => /\ outcome = "InsufficientGridError"
           /\ x_step # NaN
           /\ y_step # NaN

\* C6: a table whose number of rows differs from x_points * y_points is
\* refused with GridMismatchError.
C6_GridMismatchRefused ==
    (/\ Called
     /\ Cardinality(last.xs) >= 2
     /\ Cardinality(last.ys) >= 2
     /\ last.rows # Cardinality(last.xs) * Cardinality(last.ys))
        => outcome = "GridMismatchError"

\* C7: after the load of a complete raster, s21 has shape
\* (y_points, x_points), and when calibration was requested the calibration
\* field is set and has the shape of s21.
C7_FieldShapes ==
    CompleteRaster(last)
        => /\ Shape(s21) = <<Unbox(y_points), Unbox(x_points)>>
           /\ last.cal => (cal_table # None /\ Shape(cal_table) = Shape(s21))

\* C8: after the load of a complete raster has returned, x_values and
\* y_values agree with the stored geometry: length = points, first = lower
\* limit, last = upper limit, second - first = step.
C8_AxesAgree ==
    CompleteRaster(last)
        => /\ Returned
           /\ AxisAgrees(x_values, x_points, x_limits, x_step)
           /\ AxisAgrees(y_values, y_points, y_limits, y_step)

----------------------------------------------------------------------------
(* Further facts about the code, for reading the results above *)

\* under SpecSmooth: for window_len <= N an odd window keeps the length and
\* an even window returns one element fewer
EvenWindowDropsOne ==
    (sm_pc = "done" /\ sm_in.window_len <= Len(sm_in.x))
        => Len(sm_out) = IF sm_in.window_len % 2 = 1
                            THEN Len(sm_in.x)
                            ELSE Len(sm_in.x) - 1

\* under Spec: no call returns, and neither field is ever assigned
NoLoadCompletes == ~Returned /\ s21 = None /\ cal_table = None

\* under Spec: on any stored geometry with at least two points per axis the
\* accessors agree with it, in exact arithmetic
AxesAgreeOnStoredGeometry ==
    (GeometrySet /\ Unbox(x_points) >= 2 /\ Unbox(y_points) >= 2)
        => /\ AxisAgrees(x_values, x_points, x_limits, x_step)
           /\ AxisAgrees(y_values, y_points, y_limits, y_step)

====
